---- MODULE Spec2Model ----
(***************************************************************************)
(* Model of the event poller of the default template, the React hook       *)
(* useSorobanEvents (src/unnamed/part_003, lines 646-978).                 *)
(*                                                                         *)
(* The hook's state (useState) and refs (useRef) are the variables.  The   *)
(* JavaScript event loop is modelled by the set of pending timers and the  *)
(* sequence of fetch-with-retry cycles that are suspended at an await.     *)
(* One action is one macrotask: a call of the hook's API, a timer firing,  *)
(* the settling of a remote query, or a React lifecycle event.  The chain  *)
(* of awaits that resumes inside one macrotask (fetchOnce -> fetchWithRetry*)
(* -> refresh / poll callback) runs to its next suspension point within    *)
(* the action, as microtasks do.                                           *)
(*                                                                         *)
(* The second part models the value codec of useSorobanContract            *)
(* (src/unnamed/part_003, lines 104-144 and 242-507): toXdrValue and       *)
(* fromXdrValue are operators over JavaScript values and ScVal values, and *)
(* SpecCodec applies them to arguments drawn from bounded sets.  The 64    *)
(* bits of an XDR word are scaled down to WordBits bits.                   *)
(***************************************************************************)
EXTENDS Integers, Sequences, FiniteSets, TLC

\* ---- program constants (part_003, lines 654-657) -------------------------
DEFAULT_POLL_INTERVAL_MS == 10000
ERROR_POLL_MULTIPLIER == 2
MAX_RETRIES == 3
BACKOFF_BASE_MS == 1000

\* ---- bounds of the model -------------------------------------------------
MaxId == 2          \* event ids the remote can return: 1..MaxId
MaxPage == 2        \* longest page of one getEvents response
MaxFetchCalls == 5  \* remote queries issued in one behaviour
MaxRestarts == 1    \* re-runs of the subscription effect in one behaviour
WordBits == 3       \* bits of an XDR word in the model (64 in the code)
MaxNumber == 2      \* largest JavaScript number passed to the codec

\* ---- values ---------------------------------------------------------------
NoCursor == 0       \* cursorRef.current === undefined
NoTimer == 0        \* a timer ref holding null
Disabled == 0       \* pollIntervalMs: null
NoError == "none"   \* error === null

Ids == 1..MaxId
\* The remote gives an event one paging token, the same in every response
\* (the fixtures sdkEvent1..3: evt-00N carries cursor-00N).
PagingTokenOf(id) == id
Tokens == {PagingTokenOf(i) : i \in Ids}
\* The fields of SorobanEvent the poller reads: id and pagingToken.
EventRecords == {[id |-> i, pagingToken |-> PagingTokenOf(i)] : i \in Ids}
\* The options the hook is called with: polling on with no starting cursor,
\* polling off without and with a starting cursor.
Options ==
    {[fromCursor |-> NoCursor, pollIntervalMs |-> DEFAULT_POLL_INTERVAL_MS],
     [fromCursor |-> NoCursor, pollIntervalMs |-> Disabled],
     [fromCursor |-> 1, pollIntervalMs |-> Disabled]}
\* Every response.events array of at most MaxPage records, repeats included.
Pages == UNION {[1..n -> EventRecords] : n \in 0..MaxPage}
\* How a remote query fails: the promise rejects, or the response is
\* malformed and mapping it throws.
Failures == {"rejected", "malformed"}

VARIABLES
    events,         \* useState: held events
    loading,        \* useState
    error,          \* useState: lastError, NoError when null
    isRecovering,   \* useState
    cursorRef,      \* useRef: cursor of the next query
    pollTimerRef,   \* useRef: id of the last poll timer, or NoTimer
    retryTimerRef,  \* useRef: id of the last backoff timer, or NoTimer
    isMountedRef,   \* useRef
    isFetchingRef,  \* useRef: the in-flight guard
    fromCursor,     \* opts.fromCursor, NoCursor when omitted
    pollIntervalMs, \* opts.pollIntervalMs, Disabled when null
    timers,         \* event loop: pending setTimeout timers
    inflight,       \* event loop: suspended fetch-with-retry cycles
    lifecycle,      \* React: "constructed", "mounted" or "unmounted"
    fetchCalls,     \* number of rpcServer.getEvents calls issued so far
    restarts,       \* number of re-runs of the subscription effect so far
    step,           \* the macrotask that ran last and how it ended
    queried,        \* whether the closures of the last effect run have queried
    stopLog,        \* record of stopPolling() and refresh() calls, or "off"
    arg,            \* codec: the TypedArg handed to toXdrValue
    wire,           \* codec: the ScVal it returned, or what it threw
    decoded         \* codec: the value fromXdrValue returned for wire

vars == <<events, loading, error, isRecovering, cursorRef, pollTimerRef,
          retryTimerRef, isMountedRef, isFetchingRef, fromCursor,
          pollIntervalMs, timers, inflight, lifecycle, fetchCalls, restarts,
          step, queried, stopLog, arg, wire, decoded>>

\* The variables of the poller and those of the codec.
pollerVars == <<events, loading, error, isRecovering, cursorRef, pollTimerRef,
                retryTimerRef, isMountedRef, isFetchingRef, fromCursor,
                pollIntervalMs, timers, inflight, lifecycle, fetchCalls,
                restarts, step, queried, stopLog>>

codecVars == <<arg, wire, decoded>>

\* A codec variable nothing was put in yet.
Nothing == [t |-> "nothing", k |-> "nothing"]

\* The state the hook exposes to its caller, and the cursor.
pollerState == <<events, loading, error, isRecovering, cursorRef>>

\* ---- helpers --------------------------------------------------------------
RECURSIVE Pow(_, _)
Pow(b, e) == IF e = 0 THEN 1 ELSE b * Pow(b, e - 1)

Last(s) == s[Len(s)]

RemoveAt(s, i) == [j \in 1..(Len(s) - 1) |-> IF j < i THEN s[j] ELSE s[j + 1]]

IdsOf(s) == {s[i].id : i \in 1..Len(s)}

Occurrences(s, id) == Cardinality({i \in 1..Len(s) : s[i].id = id})

FirstIndex(s, id) == CHOOSE i \in 1..Len(s) :
                        s[i].id = id /\ \A j \in 1..(i - 1) : s[j].id # id

IsPrefix(s, t) == Len(s) <= Len(t) /\ \A i \in 1..Len(s) : t[i] = s[i]

\* The record kept in step: the task op that ran, the origin of the cycle it
\* worked on ("effect": refresh() called by the subscription effect,
\* "refresh": refresh() called by the caller, "poll": a poll timer), how the
\* task left the cycle, the backoff delays the cycle has slept through, how
\* the promise of refresh() or of the poll callback stands, two facts of
\* the state the task started in, whether the poller was degraded and how
\* many events it held, and the page of the response a mounted poller's
\* cycle succeeded with (empty in every other task), and the number of
\* pending poll timers a refresh() that started a cycle has cancelled.
NoStep == [op |-> "none", origin |-> "none", outcome |-> "none",
           slept |-> <<>>, promise |-> "none", degraded |-> FALSE,
           held |-> 0, page |-> <<>>, cancelled |-> 0]

Did(op, origin, outcome, slept, promise) ==
    [op |-> op, origin |-> origin, outcome |-> outcome, slept |-> slept,
     promise |-> promise, degraded |-> (error # NoError /\ isRecovering),
     held |-> Len(events), page |-> <<>>, cancelled |-> 0]

\* The step record of a cycle that ended, given the page of its last response.
Ended(op, c, success, page) ==
    [Did(op, c.origin, IF success THEN "success" ELSE "exhausted", c.slept,
         "none")
       EXCEPT !.page = IF success THEN page ELSE <<>>]

\* ---- fetchOnce -----------------------------------------------------------
\* Faulty variant: the new records are put in front of the held ones.
AppendNewFront(prev, newEvents) ==
    LET seen == IdsOf(prev)
    IN  SelectSeq(newEvents, LAMBDA e : e.id \notin seen) \o prev

\* setEvents updater: keep prev, append the records whose id prev lacks.
AppendNew(prev, newEvents) ==
    LET seen == IdsOf(prev)
    IN  prev \o SelectSeq(newEvents, LAMBDA e : e.id \notin seen)

\* The cursor after a response was mapped into newEvents.
AdvanceCursor(cur, newEvents) ==
    IF Len(newEvents) > 0 THEN Last(newEvents).pagingToken ELSE cur

\* ---- fetchWithRetry ------------------------------------------------------
\* Delay of the backoff sleep that follows failed attempt number attempt.
BackoffDelay(attempt) == BACKOFF_BASE_MS * Pow(3, attempt - 1)

\* Faulty variant: the loop allows one attempt more.
HasRetriesLeftOneMore(attempt) == attempt <= MAX_RETRIES

\* The test of the catch block after attempt failures: sleep and try again.
HasRetriesLeft(attempt) == attempt < MAX_RETRIES

\* The getEvents calls a cycle has issued when it has slept through slept:
\* the first call and one after every backoff sleep.
QueriesIssued(slept) == 1 + Len(slept)

\* Faulty variant: the final failure is not surfaced.
SurfaceNothing(err) == NoError

\* The value of setError after the attempt that failed last.
SurfaceError(err) == err

\* ---- timers --------------------------------------------------------------
\* Faulty variant: stopPolling leaves the poll timer pending.
StopPollingRetryOnly(tms) == {t \in tms : t.id # retryTimerRef}

TimerIds(tms) == {t.id : t \in tms}

\* setTimeout returns an id no live handle refers to.
FreshTimer(tms) ==
    LET used == TimerIds(tms) \cup {pollTimerRef, retryTimerRef}
                  \cup {inflight[i].timer : i \in 1..Len(inflight)}
    IN  CHOOSE n \in 1..(Cardinality(used) + 1) : n \notin used

\* clearTimeout of a ref: a null ref is skipped, a fired timer is a no-op.
ClearTimer(tms, ref) == {t \in tms : t.id # ref}

\* stopPolling: the timers left pending (both refs become null).
StopPolling(tms) == ClearTimer(ClearTimer(tms, pollTimerRef), retryTimerRef)

PollTimers == {t \in timers : t.kind = "poll"}
RetryTimers == {t \in timers : t.kind = "retry"}

\* ---- scheduleNextPoll ----------------------------------------------------
\* Faulty variant: the error mode does not slow polling down.
PollIntervalFlat(errorMode) == pollIntervalMs

PollInterval(errorMode) ==
    IF errorMode THEN pollIntervalMs * ERROR_POLL_MULTIPLIER
    ELSE pollIntervalMs

\* Faulty variant: a null interval is not checked.
WillScheduleMounted(mounted) == mounted

\* Whether scheduleNextPoll sets a timer at all.
WillSchedule(mounted) == pollIntervalMs # Disabled /\ mounted

\* The pending timers after scheduleNextPoll(errorMode) of the render sub:
\* the callback of the new timer closes over that render's fetchWithRetry and
\* scheduleNextPoll.
ScheduleNextPoll(errorMode, tms, mounted, sub) ==
    IF WillSchedule(mounted)
    THEN tms \cup {[id |-> FreshTimer(tms), kind |-> "poll",
                    delay |-> PollInterval(errorMode), sub |-> sub]}
    ELSE tms

\* pollTimerRef after scheduleNextPoll on the timers tms, with ref before.
ScheduledRef(tms, ref, mounted) ==
    IF WillSchedule(mounted) THEN FreshTimer(tms) ELSE ref

\* Faulty variant: an exhausted cycle rethrows its last failure.
CycleReturnRethrow(success) == IF success THEN "resolved" ELSE "rejected"

\* How the promise of refresh() or of the poll callback settles: neither
\* throws, fetchWithRetry catches every failure and returns a boolean.
CycleReturn(success) == "resolved"

\* mapEvent: the flat record built from one raw event of the response.
mapEvent(raw) == [id |-> raw.id, pagingToken |-> raw.pagingToken]

MapEvents(page) == [k \in 1..Len(page) |-> mapEvent(page[k])]

\* ---- what the caller of fetchWithRetry does with its result ---------------
\* (the same block in the poll callback, lines 909-926, and in refresh,
\* lines 941-958)
ErrorAfter(success, err) == IF success THEN NoError ELSE err

\* Faulty variant: a success does not leave the recovery mode.
RecoveringSticky(success) == IF success THEN isRecovering ELSE TRUE

RecoveringAfter(success) == ~success

\* Faulty variant: the caller does not look at isMountedRef after the await.
SettleUnchecked(op, c, success, err, tms, page) ==
    /\ isFetchingRef' = FALSE
    /\ loading' = FALSE
    /\ error' = ErrorAfter(success, err)
    /\ isRecovering' = RecoveringAfter(success)
    /\ timers' = ScheduleNextPoll(~success, tms, isMountedRef, c.sub)
    /\ pollTimerRef' = ScheduledRef(tms, pollTimerRef, isMountedRef)
    /\ step' = [Ended(op, c, success, page)
                  EXCEPT !.promise = CycleReturn(success)]

\* Faulty variant: loading is reset only after a success.
SettleLoadingOnSuccess(op, c, success, err, tms, page) ==
    /\ isFetchingRef' = FALSE
    /\ IF ~isMountedRef
       THEN /\ timers' = tms
            /\ UNCHANGED <<loading, error, isRecovering, pollTimerRef>>
            /\ step' = Did(op, c.origin, "aborted", c.slept,
                           CycleReturn(success))
       ELSE /\ loading' = IF success THEN FALSE ELSE loading
            /\ error' = ErrorAfter(success, err)
            /\ isRecovering' = RecoveringAfter(success)
            /\ timers' = ScheduleNextPoll(~success, tms, isMountedRef, c.sub)
            /\ pollTimerRef' = ScheduledRef(tms, pollTimerRef, isMountedRef)
            /\ step' = [Ended(op, c, success, page)
                          EXCEPT !.promise = CycleReturn(success)]

\* A cycle c returned success from fetchWithRetry, with err the value of the
\* error state it left, tms the pending timers and page its last response.
Settle(op, c, success, err, tms, page) ==
    /\ isFetchingRef' = FALSE
    /\ IF ~isMountedRef
       THEN /\ timers' = tms
            /\ UNCHANGED <<loading, error, isRecovering, pollTimerRef>>
            /\ step' = Did(op, c.origin, "aborted", c.slept,
                           CycleReturn(success))
       ELSE /\ loading' = FALSE
            /\ error' = ErrorAfter(success, err)
            /\ isRecovering' = RecoveringAfter(success)
            /\ timers' = ScheduleNextPoll(~success, tms, isMountedRef, c.sub)
            /\ pollTimerRef' = ScheduledRef(tms, pollTimerRef, isMountedRef)
            /\ step' = [Ended(op, c, success, page)
                          EXCEPT !.promise = CycleReturn(success)]

\* A new cycle at its first await: fetchOnce has called rpcServer.getEvents
\* with the cursor of that moment.  sub is the effect run whose render made
\* the closures the cycle runs in (its fetchOnce queries that render's
\* contractId and endpoint), issued the effect run current when the query
\* went out.
NewCycle(origin, cur, sub, issued) ==
    [origin |-> origin, pc |-> "query", attempt |-> 0, timer |-> NoTimer,
     slept |-> <<>>, cursor |-> cur, sub |-> sub, issued |-> issued]

\* Faulty variant: the in-flight guard is not looked at.
PassesGuardAlways(fetching) == TRUE

\* Whether a caller that found isFetchingRef = fetching goes on to fetch.
PassesGuard(fetching) == ~fetching

\* refresh() of the render sub called by origin, with the cursor cur, the
\* pending timers tms and the timer refs pr and rr left by the code that ran
\* before it in this task.
RefreshBody(op, origin, cur, tms, pr, rr, sub) ==
    IF ~PassesGuard(isFetchingRef)
    THEN /\ timers' = tms
         /\ pollTimerRef' = pr
         /\ retryTimerRef' = rr
         /\ step' = Did(op, origin, "ignored", <<>>, "resolved")
         /\ UNCHANGED <<isFetchingRef, loading, inflight, fetchCalls>>
    ELSE /\ fetchCalls < MaxFetchCalls
         /\ timers' = StopPolling(tms)
         /\ pollTimerRef' = NoTimer
         /\ retryTimerRef' = NoTimer
         /\ isFetchingRef' = TRUE
         /\ loading' = TRUE
         /\ inflight' = Append(inflight, NewCycle(origin, cur, sub, sub))
         /\ fetchCalls' = fetchCalls + 1
         /\ step' = [Did(op, origin, "started", <<>>, "pending")
                       EXCEPT !.cancelled =
                                 Cardinality(PollTimers \ StopPolling(tms))]

\* ---- initial state: the hook after its first render ----------------------
Constructed(o) ==
    /\ events = <<>>
    /\ loading = FALSE
    /\ error = NoError
    /\ isRecovering = FALSE
    /\ fromCursor = o.fromCursor
    /\ pollIntervalMs = o.pollIntervalMs
    /\ cursorRef = fromCursor
    /\ pollTimerRef = NoTimer
    /\ retryTimerRef = NoTimer
    /\ isMountedRef = TRUE
    /\ isFetchingRef = FALSE
    /\ timers = {}
    /\ inflight = <<>>
    /\ lifecycle = "constructed"
    /\ fetchCalls = 0
    /\ restarts = 0
    /\ step = NoStep
    /\ queried = FALSE

CodecIdle ==
    /\ arg = Nothing
    /\ wire = Nothing
    /\ decoded = Nothing

\* The calls of stopPolling() and refresh() are recorded in stopLog only in
\* the behaviours that start with the log on.
LogOff == "off"
Cleared == "clear"
Stopped == "stopped"

\* stopLog after stopPolling() returned, and after refresh() was called.
LogStop(log) == IF log = LogOff THEN LogOff ELSE Stopped
LogRefresh(log) == IF log = LogOff THEN LogOff ELSE Cleared

Init == (\E o \in Options : Constructed(o)) /\ CodecIdle /\ stopLog = LogOff

\* ---- actions -------------------------------------------------------------
\* The subscription effect runs for the first time (lines 963-968).
Mount ==
    /\ lifecycle = "constructed"
    /\ lifecycle' = "mounted"
    /\ isMountedRef' = TRUE
    /\ cursorRef' = fromCursor
    /\ RefreshBody("Mount", "effect", fromCursor, timers, pollTimerRef,
                   retryTimerRef, restarts)
    /\ queried' = PassesGuard(isFetchingRef)
    /\ stopLog' = LogRefresh(stopLog)
    /\ UNCHANGED <<events, error, isRecovering, fromCursor, pollIntervalMs,
                   restarts, codecVars>>

\* The caller invokes refresh() (lines 934-959, up to the first await).
Refresh ==
    /\ lifecycle = "mounted"
    /\ RefreshBody("Refresh", "refresh", cursorRef, timers, pollTimerRef,
                   retryTimerRef, restarts)
    /\ queried' = (queried \/ PassesGuard(isFetchingRef))
    /\ stopLog' = LogRefresh(stopLog)
    /\ UNCHANGED <<events, error, isRecovering, cursorRef, isMountedRef,
                   fromCursor, pollIntervalMs, lifecycle, restarts,
                   codecVars>>

\* The caller invokes stopPolling() (lines 881-890).
StopPollingCall ==
    /\ lifecycle = "mounted"
    /\ timers' = StopPolling(timers)
    /\ pollTimerRef' = NoTimer
    /\ retryTimerRef' = NoTimer
    /\ step' = Did("StopPolling", "none", "none", <<>>, "none")
    /\ stopLog' = LogStop(stopLog)
    /\ UNCHANGED <<events, loading, error, isRecovering, cursorRef,
                   isMountedRef, isFetchingRef, fromCursor, pollIntervalMs,
                   inflight, lifecycle, fetchCalls, restarts, queried,
                   codecVars>>

\* A poll timer fires: the callback of lines 903-909, up to the first await.
PollTick(t) ==
    /\ t \in PollTimers
    /\ IF ~isMountedRef \/ ~PassesGuard(isFetchingRef)
       THEN /\ timers' = timers \ {t}
            /\ step' = Did("PollTick", "poll", "ignored", <<>>, "resolved")
            /\ UNCHANGED <<isFetchingRef, loading, inflight, fetchCalls,
                           queried>>
       ELSE /\ fetchCalls < MaxFetchCalls
            /\ timers' = timers \ {t}
            /\ isFetchingRef' = TRUE
            /\ loading' = TRUE
            /\ inflight' = Append(inflight,
                                  NewCycle("poll", cursorRef, t.sub, restarts))
            /\ fetchCalls' = fetchCalls + 1
            /\ queried' = (queried \/ t.sub = restarts)
            /\ step' = Did("PollTick", "poll", "started", <<>>, "pending")
    /\ UNCHANGED <<events, error, isRecovering, cursorRef, pollTimerRef,
                   retryTimerRef, isMountedRef, fromCursor, pollIntervalMs,
                   lifecycle, restarts, stopLog, codecVars>>

\* The query of cycle i resolves with a well-formed page (lines 830-841),
\* fetchWithRetry returns true and the caller finishes the cycle.
QuerySucceeds(i, page) ==
    /\ i \in 1..Len(inflight)
    /\ inflight[i].pc = "query"
    /\ LET newEvents == MapEvents(page)
       IN  IF ~isMountedRef
           THEN UNCHANGED <<events, cursorRef>>
           ELSE /\ events' = AppendNew(events, newEvents)
                /\ cursorRef' = AdvanceCursor(cursorRef, newEvents)
    /\ inflight' = RemoveAt(inflight, i)
    /\ Settle("QuerySucceeds", inflight[i], TRUE, error, timers, page)
    /\ UNCHANGED <<retryTimerRef, isMountedRef, fromCursor, pollIntervalMs,
                   lifecycle, fetchCalls, restarts, queried, stopLog,
                   codecVars>>

\* The query of cycle i fails: the promise rejects, or the response is
\* malformed and mapping it throws (line 832).  The catch block of
\* fetchWithRetry (lines 857-873) sleeps or gives up.
QueryFails(i, kind) ==
    /\ i \in 1..Len(inflight)
    /\ inflight[i].pc = "query"
    /\ LET c == inflight[i]
           attempt == c.attempt + 1
       IN  IF kind = "malformed" /\ ~isMountedRef
           THEN \* fetchOnce returned at line 830, before mapping
                /\ inflight' = RemoveAt(inflight, i)
                /\ Settle("QueryFails", c, TRUE, error, timers, <<>>)
                /\ UNCHANGED retryTimerRef
           ELSE IF ~isMountedRef
           THEN /\ inflight' = RemoveAt(inflight, i)
                /\ Settle("QueryFails", c, FALSE, error, timers, <<>>)
                /\ UNCHANGED retryTimerRef
           ELSE IF HasRetriesLeft(attempt)
           THEN LET id == FreshTimer(timers)
                IN  /\ retryTimerRef' = id
                    /\ timers' = timers \cup
                          {[id |-> id, kind |-> "retry",
                            delay |-> BackoffDelay(attempt), sub |-> c.sub]}
                    /\ inflight' = [inflight EXCEPT ![i] =
                          [c EXCEPT !.pc = "sleep", !.attempt = attempt,
                                    !.timer = id]]
                    /\ step' = Did("QueryFails", c.origin, "retry", c.slept,
                                   "pending")
                    /\ UNCHANGED <<isFetchingRef, loading, error,
                                   isRecovering, pollTimerRef>>
           ELSE /\ inflight' = RemoveAt(inflight, i)
                /\ Settle("QueryFails", c, FALSE, SurfaceError(kind), timers,
                          <<>>)
                /\ UNCHANGED retryTimerRef
    /\ UNCHANGED <<events, cursorRef, isMountedRef, fromCursor,
                   pollIntervalMs, lifecycle, fetchCalls, restarts, queried,
                   stopLog, codecVars>>

\* A backoff timer fires and resumes the cycle that sleeps on it (lines
\* 864-867); the loop calls fetchOnce again.
RetryTimerFires(t) ==
    /\ t \in RetryTimers
    /\ \E i \in 1..Len(inflight) :
          /\ inflight[i].pc = "sleep"
          /\ inflight[i].timer = t.id
          /\ LET c == [inflight[i] EXCEPT !.slept = Append(@, t.delay),
                                          !.timer = NoTimer]
             IN  IF ~isMountedRef
                 THEN /\ inflight' = RemoveAt(inflight, i)
                      /\ Settle("RetryTimerFires", c, FALSE, error,
                                timers \ {t}, <<>>)
                      /\ UNCHANGED <<fetchCalls, queried>>
                 ELSE /\ fetchCalls < MaxFetchCalls
                      /\ timers' = timers \ {t}
                      /\ inflight' = [inflight EXCEPT ![i] =
                            [c EXCEPT !.pc = "query", !.cursor = cursorRef,
                                      !.issued = restarts]]
                      /\ fetchCalls' = fetchCalls + 1
                      /\ queried' = (queried \/ c.sub = restarts)
                      /\ step' = Did("RetryTimerFires", c.origin, "retry",
                                     c.slept, "pending")
                      /\ UNCHANGED <<isFetchingRef, loading, error,
                                     isRecovering, pollTimerRef>>
    /\ UNCHANGED <<events, cursorRef, retryTimerRef, isMountedRef,
                   fromCursor, pollIntervalMs, lifecycle, restarts, stopLog,
                   codecVars>>

\* The component unmounts: the cleanup of the effect (lines 970-973).
Unmount ==
    /\ lifecycle = "mounted"
    /\ lifecycle' = "unmounted"
    /\ isMountedRef' = FALSE
    /\ timers' = StopPolling(timers)
    /\ pollTimerRef' = NoTimer
    /\ retryTimerRef' = NoTimer
    /\ step' = Did("Unmount", "none", "none", <<>>, "none")
    /\ UNCHANGED <<events, loading, error, isRecovering, cursorRef,
                   isFetchingRef, fromCursor, pollIntervalMs, inflight,
                   fetchCalls, restarts, queried, stopLog, codecVars>>

\* contractId or sorobanRpc changed: the cleanup runs and the effect runs
\* again in the same commit (lines 963-975).
Restart ==
    /\ lifecycle = "mounted"
    /\ restarts < MaxRestarts
    /\ restarts' = restarts + 1
    /\ isMountedRef' = TRUE
    /\ cursorRef' = fromCursor
    /\ RefreshBody("Restart", "effect", fromCursor, StopPolling(timers),
                   NoTimer, NoTimer, restarts + 1)
    /\ queried' = PassesGuard(isFetchingRef)
    /\ stopLog' = LogRefresh(stopLog)
    /\ UNCHANGED <<events, error, isRecovering, fromCursor, pollIntervalMs,
                   lifecycle, codecVars>>

Next ==
    \/ Mount
    \/ Refresh
    \/ StopPollingCall
    \/ \E t \in timers : PollTick(t)
    \/ \E i \in 1..Len(inflight), page \in Pages : QuerySucceeds(i, page)
    \/ \E i \in 1..Len(inflight), kind \in Failures : QueryFails(i, kind)
    \/ \E t \in timers : RetryTimerFires(t)
    \/ Unmount

Spec == Init /\ [][Next]_vars

\* The same with re-runs of the subscription effect.
NextRestart == Next \/ Restart

SpecRestart == Init /\ [][NextRestart]_vars

\* The same with the calls of stopPolling() and refresh() recorded.
InitLogged ==
    (\E o \in Options : Constructed(o)) /\ CodecIdle /\ stopLog = Cleared

SpecLogged == InitLogged /\ [][Next]_vars

\* ---- scheduling ----------------------------------------------------------
\* What the JavaScript event loop and the remote guarantee: a pending timer
\* fires, and a query that went out settles, with a response or a failure.
\* The calls of the hook's caller and the lifecycle events of React are
\* free to happen or not.
TimersFire ==
    /\ WF_vars(\E t \in timers : PollTick(t))
    /\ WF_vars(\E t \in timers : RetryTimerFires(t))

QueriesSettle ==
    WF_vars(\E i \in 1..Len(inflight) :
               \/ \E page \in Pages : QuerySucceeds(i, page)
               \/ \E kind \in Failures : QueryFails(i, kind))

SpecFair == Init /\ [][Next]_vars /\ TimersFire /\ QueriesSettle

SpecRestartFair ==
    Init /\ [][NextRestart]_vars /\ TimersFire /\ QueriesSettle

\* ---- type invariant ------------------------------------------------------
TypeOK ==
    /\ \A k \in 1..Len(events) : events[k] \in EventRecords
    /\ loading \in BOOLEAN
    /\ error \in {NoError} \cup Failures
    /\ isRecovering \in BOOLEAN
    /\ cursorRef \in {NoCursor} \cup Tokens
    /\ isMountedRef \in BOOLEAN
    /\ isFetchingRef \in BOOLEAN
    /\ lifecycle \in {"constructed", "mounted", "unmounted"}
    /\ fetchCalls \in 0..MaxFetchCalls
    /\ restarts \in 0..MaxRestarts
    /\ queried \in BOOLEAN
    /\ stopLog \in {LogOff, Cleared, Stopped}

\* ==== the value codec of useSorobanContract ================================
\* ---- JavaScript values ---------------------------------------------------
\* A value is a record whose field t is its kind.  A number is kept as a
\* count of halves, so that 3 is Num(6) and 1.5 is Num(3), NaN apart; a
\* string is the sequence of its characters.
Bool(b) == [t |-> "boolean", v |-> b]
Num(h) == [t |-> "number", halves |-> h, nan |-> FALSE]
Big(n) == [t |-> "bigint", v |-> n]
Str(s) == [t |-> "string", s |-> s]
U8(b) == [t |-> "Uint8Array", bytes |-> b]
AddressObject(s) == [t |-> "Address", s |-> s]
Arr(items) == [t |-> "Array", items |-> items]
Obj(entries) == [t |-> "object", entries |-> entries]
JsMap(entries) == [t |-> "Map", entries |-> entries]
Null == [t |-> "null"]
Undefined == [t |-> "undefined"]
\* { value, type }: a TypedArg with a hint.
Typed(value, type) == [t |-> "typed", value |-> value, type |-> type]
\* One own property of a plain object, one entry of a Map.
Prop(key, val) == [key |-> key, val |-> val]

NaN == [t |-> "number", halves |-> 0, nan |-> TRUE]

IsNaN(x) == x.t = "number" /\ x.nan

\* Number.isInteger(x).
IsInteger(x) == x.t = "number" /\ ~x.nan /\ x.halves % 2 = 0

\* ---- ScVal values --------------------------------------------------------
scvBool(b) == [k |-> "scvBool", b |-> b]
scvVoid == [k |-> "scvVoid"]
scvU32(x) == [k |-> "scvU32", v |-> x]
scvI32(x) == [k |-> "scvI32", v |-> x]
scvU64(n) == [k |-> "scvU64", v |-> n]
scvI64(n) == [k |-> "scvI64", v |-> n]
scvU128(parts) == [k |-> "scvU128", hi |-> parts.hi, lo |-> parts.lo]
scvI128(parts) == [k |-> "scvI128", hi |-> parts.hi, lo |-> parts.lo]
scvString(s) == [k |-> "scvString", s |-> s]
scvSymbol(s) == [k |-> "scvSymbol", s |-> s]
scvAddress(s) == [k |-> "scvAddress", s |-> s]
scvBytes(b) == [k |-> "scvBytes", bytes |-> b]
scvTimepoint(n) == [k |-> "scvTimepoint", v |-> n]
scvDuration(n) == [k |-> "scvDuration", v |-> n]
scvVec(items) == [k |-> "scvVec", items |-> items]
scvMap(entries) == [k |-> "scvMap", entries |-> entries]
\* What a call left instead of a value when it threw.
Thrown(e) == [k |-> "throw", error |-> e]

IsThrown(w) == w.k = "throw"

\* The first exception of a sequence of results, as Array.prototype.map
\* lets it through.
FirstThrown(ws) ==
    ws[CHOOSE i \in 1..Len(ws) :
          IsThrown(ws[i]) /\ \A j \in 1..(i - 1) : ~IsThrown(ws[j])]

AnyThrown(ws) == \E i \in 1..Len(ws) : IsThrown(ws[i])

\* ---- BigInt arithmetic (lines 104-134) -----------------------------------
SHIFT64 == WordBits
MASK64 == Pow(2, SHIFT64) - 1
ZERO == 0

\* Faulty variant: the shift rounds towards zero.
ShiftRightTruncating(n, k) ==
    IF n < 0 THEN -((-n) \div Pow(2, k)) ELSE n \div Pow(2, k)

\* n >> k on a BigInt: the arithmetic shift, which rounds towards minus
\* infinity.
ShiftRight(n, k) == n \div Pow(2, k)

ShiftLeft(n, k) == n * Pow(2, k)

\* a & b and a | b on BigInts, bit by bit on the two's complement forms.
RECURSIVE BitAnd(_, _)
BitAnd(a, b) ==
    IF a = 0 \/ b = 0 THEN 0
    ELSE IF a = -1 THEN b
    ELSE IF b = -1 THEN a
    ELSE (a % 2) * (b % 2) + 2 * BitAnd(a \div 2, b \div 2)

RECURSIVE BitOr(_, _)
BitOr(a, b) ==
    IF a = 0 THEN b
    ELSE IF b = 0 THEN a
    ELSE IF a = -1 \/ b = -1 THEN -1
    ELSE (IF a % 2 = 1 \/ b % 2 = 1 THEN 1 ELSE 0)
            + 2 * BitOr(a \div 2, b \div 2)

\* ---- text ----------------------------------------------------------------
Digits == <<"0", "1", "2", "3", "4", "5", "6", "7", "8", "9">>
HexDigits == Digits \o <<"a", "b", "c", "d", "e", "f">>

IndexIn(chars, c) == CHOOSE i \in 1..Len(chars) : chars[i] = c

IsDigit(c) == \E i \in 1..Len(Digits) : Digits[i] = c
IsHexDigit(c) == \E i \in 1..Len(HexDigits) : HexDigits[i] = c

RECURSIVE NatText(_)
NatText(n) ==
    IF n < 10 THEN <<Digits[n + 1]>>
    ELSE NatText(n \div 10) \o <<Digits[(n % 10) + 1]>>

\* String(n) of a BigInt or of an integer-valued number.
IntText(n) == IF n < 0 THEN <<"-">> \o NatText(-n) ELSE NatText(n)

\* String(x) of a number.
NumberText(h) ==
    IF h % 2 = 0 THEN IntText(h \div 2)
    ELSE LET a == IF h < 0 THEN -h ELSE h
         IN  (IF h < 0 THEN <<"-">> ELSE <<>>)
                \o NatText(a \div 2) \o <<".", "5">>

RECURSIVE DigitsValue(_)
DigitsValue(s) ==
    IF s = <<>> THEN 0
    ELSE 10 * DigitsValue(SubSeq(s, 1, Len(s) - 1))
            + (IndexIn(Digits, s[Len(s)]) - 1)

AllDigits(s) == Len(s) > 0 /\ \A i \in 1..Len(s) : IsDigit(s[i])

\* BigInt(s) of a string: the empty string is 0n, a decimal literal with an
\* optional sign is its value, anything else is a SyntaxError.
StringToBigInt(s) ==
    IF s = <<>> THEN [ok |-> TRUE, v |-> 0]
    ELSE IF AllDigits(s) THEN [ok |-> TRUE, v |-> DigitsValue(s)]
    ELSE IF s[1] \in {"-", "+"} /\ AllDigits(Tail(s))
    THEN [ok |-> TRUE,
          v |-> IF s[1] = "-" THEN -DigitsValue(Tail(s))
                ELSE DigitsValue(Tail(s))]
    ELSE [ok |-> FALSE, v |-> 0]

\* String(value) of the values the codec is given.
RECURSIVE ToText(_)
ToText(x) ==
    CASE x.t = "string" -> x.s
      [] x.t = "number" ->
            IF x.nan THEN <<"N", "a", "N">> ELSE NumberText(x.halves)
      [] x.t = "bigint" -> IntText(x.v)
      [] x.t = "boolean" ->
            IF x.v THEN <<"t", "r", "u", "e">> ELSE <<"f", "a", "l", "s", "e">>
      [] x.t = "null" -> <<"n", "u", "l", "l">>
      [] x.t = "undefined" ->
            <<"u", "n", "d", "e", "f", "i", "n", "e", "d">>
      [] x.t = "Address" -> x.s
      [] OTHER -> <<"[", "o", "b", "j", "e", "c", "t", "]">>

\* Buffer.from(clean, "hex"): one byte for every pair of hex digits, up to
\* the first pair that is not one; a last single character is dropped.
RECURSIVE HexDecode(_)
HexDecode(s) ==
    IF Len(s) < 2 \/ ~IsHexDigit(s[1]) \/ ~IsHexDigit(s[2]) THEN <<>>
    ELSE <<16 * (IndexIn(HexDigits, s[1]) - 1)
             + (IndexIn(HexDigits, s[2]) - 1)>>
            \o HexDecode(SubSeq(s, 3, Len(s)))

StartsWith(s, prefix) ==
    Len(s) >= Len(prefix) /\ SubSeq(s, 1, Len(prefix)) = prefix

\* ---- what the codec uses of JavaScript and of the SDK --------------------
\* Number(value).
ToNumber(x) ==
    CASE x.t = "number" -> x
      [] x.t = "bigint" -> Num(2 * x.v)
      [] x.t = "boolean" -> IF x.v THEN Num(2) ELSE Num(0)
      [] x.t = "null" -> Num(0)
      [] x.t = "string" ->
            LET p == StringToBigInt(x.s)
            IN  IF p.ok THEN Num(2 * p.v) ELSE NaN
      [] OTHER -> NaN

\* Boolean(value).
ToBoolean(x) ==
    CASE x.t = "boolean" -> x.v
      [] x.t = "number" -> ~IsNaN(x) /\ x.halves # 0
      [] x.t = "bigint" -> x.v # 0
      [] x.t = "string" -> x.s # <<>>
      [] x.t \in {"null", "undefined"} -> FALSE
      [] OTHER -> TRUE

\* The result of a call that returns a plain value, or what it threw.
Ok(v) == [k |-> "ok", v |-> v]

\* xdr.Uint64.fromString(text), xdr.Int64.fromString(text): the integer the
\* text spells, when it lies in the word.
Uint64FromString(s) ==
    LET p == StringToBigInt(s)
    IN  IF ~p.ok THEN Thrown("TypeError")
        ELSE IF p.v < 0 \/ p.v > MASK64 THEN Thrown("RangeError")
        ELSE Ok(p.v)

Int64FromString(s) ==
    LET p == StringToBigInt(s)
        half == Pow(2, SHIFT64 - 1)
    IN  IF ~p.ok THEN Thrown("TypeError")
        ELSE IF p.v < -half \/ p.v >= half THEN Thrown("RangeError")
        ELSE Ok(p.v)

\* The strkey texts new Address(text) accepts: an account and a contract.
AccountAddress == [i \in 1..56 |-> IF i = 1 THEN "G" ELSE "A"]
ContractAddress == [i \in 1..56 |-> IF i = 1 THEN "C" ELSE "A"]
ValidAddresses == {AccountAddress, ContractAddress}

\* new Address(text).toScVal().
AddressToScVal(s) ==
    IF s \in ValidAddresses THEN scvAddress(s) ELSE Thrown("Error")

\* ---- helpers of the codec (lines 113-144) --------------------------------
\* Faulty variant: a negative hi is not normalized.
bigintToU128PartsSigned(n) ==
    LET hi == ShiftRight(n, SHIFT64)
        lo == BitAnd(n, MASK64)
        h == Uint64FromString(IntText(hi))
        l == Uint64FromString(IntText(lo))
    IN  IF IsThrown(h) THEN h
        ELSE IF IsThrown(l) THEN l
        ELSE [k |-> "ok", hi |-> h.v, lo |-> l.v]

bigintToU128Parts(n) ==
    LET hi == ShiftRight(n, SHIFT64)
        lo == BitAnd(n, MASK64)
        h == Uint64FromString(IntText(IF hi < ZERO THEN hi + (MASK64 + 1)
                                      ELSE hi))
        l == Uint64FromString(IntText(lo))
    IN  IF IsThrown(h) THEN h
        ELSE IF IsThrown(l) THEN l
        ELSE [k |-> "ok", hi |-> h.v, lo |-> l.v]

bigintToI128Parts(n) ==
    LET hi == ShiftRight(n, SHIFT64)
        lo == BitAnd(n, MASK64)
        h == Int64FromString(IntText(hi))
        l == Uint64FromString(IntText(lo))
    IN  IF IsThrown(h) THEN h
        ELSE IF IsThrown(l) THEN l
        ELSE [k |-> "ok", hi |-> h.v, lo |-> l.v]

\* Faulty variant: hi is not shifted.
hiLoToI128Unshifted(hi, lo) == BitOr(hi, BitAnd(lo, MASK64))

hiLoToI128(hi, lo) == BitOr(ShiftLeft(hi, SHIFT64), BitAnd(lo, MASK64))

\* toBuffer (lines 137-144).
toBuffer(value) ==
    IF value.t = "Uint8Array" THEN Ok(value.bytes)
    ELSE IF value.t = "string"
    THEN LET clean == IF StartsWith(value.s, <<"0", "x">>)
                      THEN SubSeq(value.s, 3, Len(value.s)) ELSE value.s
         IN  Ok(HexDecode(clean))
    ELSE Thrown("Error")

\* ---- toXdrValue (lines 242-399) ------------------------------------------
\* The n of the u128 and i128 hints: BigInt(value) of a string, the value
\* itself otherwise; the shift of bigintTo*Parts throws a TypeError on a
\* value that is no BigInt.
HintedBigInt(value) ==
    IF value.t = "string"
    THEN LET p == StringToBigInt(value.s)
         IN  IF p.ok THEN Ok(p.v) ELSE Thrown("SyntaxError")
    ELSE IF value.t = "bigint" THEN Ok(value.v)
    ELSE Thrown("TypeError")

\* BigInt(String(value)) of the u64 and i64 hints.
BigIntOfText(value) ==
    LET p == StringToBigInt(ToText(value))
    IN  IF p.ok THEN Ok(p.v) ELSE Thrown("SyntaxError")

\* The property names of an enum: { tag, values }.
TagKey == <<"t", "a", "g">>
ValuesKey == <<"v", "a", "l", "u", "e", "s">>

\* The own property key of a plain object, undefined when it has none.
Field(obj, key) ==
    IF \E i \in 1..Len(obj.entries) : obj.entries[i].key = key
    THEN obj.entries[CHOOSE i \in 1..Len(obj.entries) :
                        obj.entries[i].key = key].val
    ELSE Undefined

\* An ScVal built from the result r of a call, or the exception of r.
Lift(r, build(_)) == IF IsThrown(r) THEN r ELSE build(r)

\* A string of the shape of a Stellar address (lines 361-364).
AddressShaped(s) ==
    (StartsWith(s, <<"G">>) \/ StartsWith(s, <<"C">>)) /\ Len(s) = 56

\* scvVec of the results ws, or the first exception among them.
VecOf(ws) == IF AnyThrown(ws) THEN FirstThrown(ws) ELSE scvVec(ws)

\* scvMap of the entries with keys ks and values vs.
MapOfPairs(ks, vs) ==
    IF AnyThrown(ks) \/ AnyThrown(vs)
    THEN LET both == [i \in 1..(2 * Len(ks)) |->
                        IF i % 2 = 1 THEN ks[(i + 1) \div 2] ELSE vs[i \div 2]]
         IN  FirstThrown(both)
    ELSE scvMap([i \in 1..Len(ks) |-> [key |-> ks[i], val |-> vs[i]]])

\* [symbol(tag), ...values] (lines 338-341).
EnumVec(tag, ws) == VecOf(<<scvSymbol(tag)>> \o ws)

\* typeof value === "bigint" (lines 350-353).
AutoBigInt(value) == Lift(bigintToI128Parts(value.v), scvI128)

RECURSIVE toXdrValue(_)
toXdrValue(a) ==
    LET hinted == a.t = "typed"
        value == IF hinted THEN a.value ELSE a
        hint == IF hinted THEN a.type ELSE "none"
        Each(items) == [i \in 1..Len(items) |-> toXdrValue(items[i])]
    IN  CASE hint = "u32" -> scvU32(ToNumber(value))
          [] hint = "i32" -> scvI32(ToNumber(value))
          [] hint = "u64" ->
                LET n == BigIntOfText(value)
                IN  IF IsThrown(n) THEN n
                    ELSE Lift(Uint64FromString(IntText(n.v)),
                              LAMBDA r : scvU64(r.v))
          [] hint = "i64" ->
                LET n == BigIntOfText(value)
                IN  IF IsThrown(n) THEN n
                    ELSE Lift(Int64FromString(IntText(n.v)),
                              LAMBDA r : scvI64(r.v))
          [] hint = "u128" ->
                LET n == HintedBigInt(value)
                IN  IF IsThrown(n) THEN n
                    ELSE Lift(bigintToU128Parts(n.v), scvU128)
          [] hint = "i128" ->
                LET n == HintedBigInt(value)
                IN  IF IsThrown(n) THEN n
                    ELSE Lift(bigintToI128Parts(n.v), scvI128)
          [] hint = "bool" -> scvBool(ToBoolean(value))
          [] hint = "string" -> scvString(ToText(value))
          [] hint = "symbol" -> scvSymbol(ToText(value))
          [] hint = "address" -> AddressToScVal(ToText(value))
          [] hint = "bytes" ->
                Lift(toBuffer(value), LAMBDA r : scvBytes(r.v))
          [] hint = "timepoint" ->
                Lift(Uint64FromString(ToText(value)),
                     LAMBDA r : scvTimepoint(r.v))
          [] hint = "duration" ->
                Lift(Uint64FromString(ToText(value)),
                     LAMBDA r : scvDuration(r.v))
          [] hint = "vec" ->
                IF value.t # "Array" THEN Thrown("TypeError")
                ELSE VecOf(Each(value.items))
          [] hint = "map" ->
                IF value.t # "Array" THEN Thrown("TypeError")
                ELSE IF \E i \in 1..Len(value.items) :
                           value.items[i].t # "Array"
                THEN Thrown("TypeError")
                ELSE LET At(tuple, n) == IF Len(tuple.items) >= n
                                         THEN tuple.items[n] ELSE Undefined
                     IN  MapOfPairs(
                            [i \in 1..Len(value.items) |->
                               toXdrValue(At(value.items[i], 1))],
                            [i \in 1..Len(value.items) |->
                               toXdrValue(At(value.items[i], 2))])
          [] hint = "enum" ->
                IF value.t # "object" THEN Thrown("TypeError")
                ELSE LET tag == Field(value, TagKey)
                         given == Field(value, ValuesKey)
                         values == IF given.t = "undefined" THEN <<>>
                                   ELSE given.items
                     IN  EnumVec(tag.s, Each(values))
          \* ---- auto-detection, no hint ----
          [] OTHER ->
                CASE value.t = "boolean" -> scvBool(value.v)
                  [] value.t = "bigint" -> AutoBigInt(value)
                  [] value.t = "number" -> scvI32(value)
                  [] value.t = "string" ->
                        IF AddressShaped(value.s) THEN AddressToScVal(value.s)
                        ELSE scvString(value.s)
                  [] value.t = "Uint8Array" -> scvBytes(value.bytes)
                  [] value.t = "Address" -> scvAddress(value.s)
                  [] value.t = "Array" -> VecOf(Each(value.items))
                  [] value.t = "object" ->
                        MapOfPairs(
                           [i \in 1..Len(value.entries) |->
                              toXdrValue(Str(value.entries[i].key))],
                           [i \in 1..Len(value.entries) |->
                              toXdrValue(value.entries[i].val)])
                  [] OTHER -> scvString(ToText(value))

\* ---- fromXdrValue (lines 426-507) ----------------------------------------
\* scVal.address().toString(): the SDK is not part of the repository.  With
\* a toString of its own the ScAddress gives the strkey text; without one
\* Object.prototype.toString gives "[object Object]".
AddressToString == {"strkey", "object"}

ObjectText == <<"[", "o", "b", "j", "e", "c", "t", "]">>

ScAddressText(s, sdk) == IF sdk = "strkey" THEN s ELSE ObjectText

\* Keys a Map takes for the same key (SameValueZero): equal primitives; an
\* object is the same key only as itself, and every decoded object is new.
SameKey(a, b) ==
    /\ a.t = b.t
    /\ a.t \in {"boolean", "number", "bigint", "string", "null", "undefined"}
    /\ a = b

\* map.set(key, val) on the entries of a Map, which keeps insertion order.
MapSet(entries, key, val) ==
    IF \E i \in 1..Len(entries) : SameKey(entries[i].key, key)
    THEN [i \in 1..Len(entries) |->
            IF SameKey(entries[i].key, key) THEN Prop(key, val)
            ELSE entries[i]]
    ELSE Append(entries, Prop(key, val))

RECURSIVE MapSetAll(_, _, _)
MapSetAll(entries, ks, vs) ==
    IF ks = <<>> THEN entries
    ELSE MapSetAll(MapSet(entries, Head(ks), Head(vs)), Tail(ks), Tail(vs))

\* Faulty variant: the tag stays among the values.
EnumValuesAll(decodedItems) == decodedItems

\* decoded.slice(1) (line 490).
EnumValues(decodedItems) == Tail(decodedItems)

\* Faulty variant: a sequence is never taken for an enum.
FirstIsSymbolNever(vec) == FALSE

\* The test of the enum heuristic (lines 484-487).
FirstIsSymbol(vec) == Len(vec) >= 1 /\ vec[1].k = "scvSymbol"

RECURSIVE fromXdrValue(_, _)
fromXdrValue(scVal, sdk) ==
    LET type == scVal.k
    IN  CASE type = "scvBool" -> Bool(scVal.b)
          [] type = "scvVoid" -> Null
          [] type = "scvU32" -> scVal.v
          [] type = "scvI32" -> scVal.v
          [] type = "scvU64" -> Big(StringToBigInt(IntText(scVal.v)).v)
          [] type = "scvI64" -> Big(StringToBigInt(IntText(scVal.v)).v)
          [] type = "scvU128" ->
                LET hi == StringToBigInt(IntText(scVal.hi)).v
                    lo == StringToBigInt(IntText(scVal.lo)).v
                IN  Big(BitOr(ShiftLeft(hi, SHIFT64), lo))
          [] type = "scvI128" ->
                LET hi == StringToBigInt(IntText(scVal.hi)).v
                    lo == StringToBigInt(IntText(scVal.lo)).v
                IN  Big(hiLoToI128(hi, lo))
          [] type = "scvString" -> Str(scVal.s)
          [] type = "scvSymbol" -> Str(scVal.s)
          [] type = "scvBytes" -> U8(scVal.bytes)
          [] type = "scvAddress" -> Str(ScAddressText(scVal.s, sdk))
          [] type = "scvTimepoint" -> ToNumber(Str(IntText(scVal.v)))
          [] type = "scvDuration" -> ToNumber(Str(IntText(scVal.v)))
          [] type = "scvVec" ->
                LET vec == scVal.items
                    decodedItems == [i \in 1..Len(vec) |->
                                       fromXdrValue(vec[i], sdk)]
                IN  IF FirstIsSymbol(vec)
                    THEN Obj(<<Prop(TagKey, Str(vec[1].s)),
                               Prop(ValuesKey, Arr(EnumValues(decodedItems)))>>)
                    ELSE Arr(decodedItems)
          [] type = "scvMap" ->
                LET entries == scVal.entries
                IN  JsMap(MapSetAll(<<>>,
                        [i \in 1..Len(entries) |->
                           fromXdrValue(entries[i].key, sdk)],
                        [i \in 1..Len(entries) |->
                           fromXdrValue(entries[i].val, sdk)]))
          [] OTHER -> Str(ObjectText)

\* ---- the arguments the codec is applied to -------------------------------
MaxItems == 2       \* longest vec, map or enum argument

TextHi == <<"h", "i">>
TextTransfer == <<"T", "r", "a", "n", "s", "f", "e", "r">>
TextActive == <<"A", "c", "t", "i", "v", "e">>
HexText == <<"d", "e", "a", "d">>
HexPrefixed == <<"0", "x", "0", "1">>
NotHexText == <<"x", "y", "z", "w">>
OddHexText == <<"a", "b", "c">>
\* Of the shape of an address, but no strkey.
NotAnAddress == [i \in 1..56 |-> IF i = 1 THEN "G" ELSE "B"]

Texts == {<<>>, TextHi, TextTransfer, HexText, HexPrefixed, NotHexText,
          OddHexText}

\* The numbers -1, -0.5, 0, 0.5, ... MaxNumber.
Numbers == {Num(h) : h \in (-2)..(2 * MaxNumber)}
WholeNumbers == {x \in Numbers : IsInteger(x) /\ x.halves >= 0}

\* The BigInts of the signed and of the unsigned double word, and those the
\* u128 hint is given below zero.
Int128s == (-Pow(2, 2 * SHIFT64 - 1))..(Pow(2, 2 * SHIFT64 - 1) - 1)
UInt128s == 0..(Pow(2, 2 * SHIFT64) - 1)
Int64s == (-Pow(2, SHIFT64 - 1))..(Pow(2, SHIFT64 - 1) - 1)
UInt64s == 0..MASK64

ByteArrays == {U8(<<>>), U8(<<222, 173>>), U8(<<0>>)}

Hints == {"u32", "i32", "u64", "i64", "u128", "i128", "bool", "string",
          "symbol", "address", "bytes", "vec", "map", "enum", "timepoint",
          "duration"}

\* The values each scalar hint documents as its input (lines 39-56).
DocumentedInputs(hint) ==
    CASE hint = "u32" -> WholeNumbers
      [] hint = "i32" -> {x \in Numbers : IsInteger(x)}
      [] hint = "u64" -> {Big(n) : n \in UInt64s} \cup WholeNumbers
      [] hint = "i64" -> {Big(n) : n \in Int64s}
                            \cup {x \in Numbers : IsInteger(x)}
      [] hint = "u128" -> {Big(n) : n \in UInt128s}
                             \cup {Str(IntText(n)) : n \in {0, 12}}
      [] hint = "i128" -> {Big(n) : n \in Int128s}
                             \cup {Str(IntText(n)) : n \in {-5, 12}}
      [] hint = "bool" -> {Bool(TRUE), Bool(FALSE)}
      [] hint = "string" -> {Str(s) : s \in Texts}
      [] hint = "symbol" -> {Str(s) : s \in {TextHi, TextTransfer}}
      [] hint = "address" -> {Str(s) : s \in ValidAddresses}
      [] hint = "bytes" -> ByteArrays \cup {Str(HexText), Str(HexPrefixed)}
      [] hint = "timepoint" -> WholeNumbers
      [] hint = "duration" -> WholeNumbers
      [] OTHER -> {}

ScalarHints == Hints \ {"vec", "map", "enum"}

\* Values a hint does not document: another kind of value, text that does
\* not spell what the hint asks for, a BigInt below zero for u128.
OtherInputs(hint) ==
    CASE hint = "u32" -> {Bool(TRUE), Str(TextHi)}
      [] hint = "u64" -> {Str(TextHi), Num(1)}
      [] hint = "u128" -> {Big(n) : n \in (-Pow(2, 2 * SHIFT64))..(-1)}
                             \cup {Num(2), Str(TextHi)}
      [] hint = "i128" -> {Num(2), Bool(TRUE)}
      [] hint = "bool" -> {Str(TextHi), Num(0)}
      [] hint = "string" -> {Num(3), Bool(FALSE), Null}
      [] hint = "address" -> {Str(NotAnAddress), Str(TextHi)}
      [] hint = "bytes" -> {Str(NotHexText), Str(OddHexText), Num(2),
                            Bool(TRUE), Null}
      [] hint = "timepoint" -> {Num(-2), Num(1), Str(TextHi)}
      [] hint = "vec" -> {Num(2), Str(TextHi), Null}
      [] hint = "map" -> {Num(2), Arr(<<Num(2)>>)}
      [] hint = "enum" -> {Null, Num(2)}
      [] OTHER -> {}

\* The elements of the vec, map and enum arguments.
Leaves == {Typed(Num(2), "u32"), Typed(Big(5), "u128"),
           Typed(Big(-1), "i128"), Typed(Str(TextHi), "symbol"),
           Str(TextHi), Bool(TRUE)}

LeafLists == UNION {[1..n -> Leaves] : n \in 0..MaxItems}

MapKeys == {Str(TextHi), Typed(Num(2), "u32"), Typed(Str(TextHi), "symbol")}
MapVals == {Bool(TRUE), Typed(Big(5), "u128")}
Tuples == {Arr(<<key, val>>) : key \in MapKeys, val \in MapVals}
TupleLists == UNION {[1..n -> Tuples] : n \in 0..MaxItems}

Tags == {TextTransfer, TextActive}
EnumObjects ==
    {Obj(<<Prop(TagKey, Str(tag)), Prop(ValuesKey, Arr(values))>>) :
        tag \in Tags, values \in LeafLists}
       \cup {Obj(<<Prop(TagKey, Str(tag))>>) : tag \in Tags}

HintedArgs ==
    UNION {{Typed(v, hint) :
                v \in DocumentedInputs(hint) \cup OtherInputs(hint)} :
             hint \in Hints}
       \cup {Typed(Arr(items), "vec") : items \in LeafLists}
       \cup {Typed(Arr(tuples), "map") : tuples \in TupleLists}
       \cup {Typed(object, "enum") : object \in EnumObjects}

\* Plain objects: own string keys in insertion order.
PlainObjects ==
    {Obj(<<>>),
     Obj(<<Prop(<<"f", "o", "o">>, Str(TextHi))>>),
     Obj(<<Prop(<<"f", "o", "o">>, Str(TextHi)),
           Prop(<<"c", "o", "u", "n", "t">>, Num(4))>>),
     Obj(<<Prop(AccountAddress, Big(7)), Prop(TextHi, Arr(<<Num(2)>>))>>)}

\* Arguments without a hint.
PlainArgs ==
    {Bool(TRUE), Bool(FALSE), Null, Undefined}
       \cup {Big(n) : n \in Int128s}
       \cup Numbers
       \cup {Str(s) : s \in Texts \cup ValidAddresses \cup {NotAnAddress}}
       \cup ByteArrays
       \cup {AddressObject(s) : s \in ValidAddresses}
       \cup {Arr(items) : items \in LeafLists}
       \cup {Arr(<<Num(2), Num(4), Num(3)>>), Arr(<<Arr(<<Bool(TRUE)>>)>>)}
       \cup PlainObjects

CodecArgs == HintedArgs \cup PlainArgs

\* ---- the codec as a state machine ----------------------------------------
InitCodec ==
    /\ Constructed(CHOOSE o \in Options : TRUE)
    /\ stopLog = LogOff
    /\ arg \in CodecArgs
    /\ wire = Nothing
    /\ decoded = Nothing

\* toXdrValue(arg), as callFunction and buildInvokeXDR call it on each
\* argument (lines 528 and 579).
Encode ==
    /\ arg.t # "nothing"
    /\ wire.k = "nothing"
    /\ wire' = toXdrValue(arg)
    /\ UNCHANGED <<arg, decoded, pollerVars>>

\* fromXdrValue(wire), as callFunction calls it on the value the contract
\* returned (line 545).
Decode ==
    /\ wire.k \notin {"nothing", "throw"}
    /\ decoded.t = "nothing"
    /\ \E sdk \in AddressToString : decoded' = fromXdrValue(wire, sdk)
    /\ UNCHANGED <<arg, wire, pollerVars>>

NextCodec == Encode \/ Decode

SpecCodec == InitCodec /\ [][NextCodec]_vars

Encoded == wire.k # "nothing"
Decoded == decoded.t # "nothing"

\* ---- claims ---------------------------------------------------------------
Range(s) == {s[k] : k \in 1..Len(s)}

Degraded == error # NoError /\ isRecovering

\* A cycle started by a refresh() call, of the effect or of the caller.
RefreshOrigins == {"effect", "refresh"}

\* C1 (as claimed): when a fetch result contains an id that an earlier fetch
\* result already brought in, the held sequence afterwards contains that id
\* exactly once, at the position it had before.
C1_DedupAcrossFetches ==
    [][\A i \in 1..Len(inflight), page \in Pages :
          (QuerySucceeds(i, page) /\ isMountedRef) =>
             \A id \in IdsOf(page) \cap IdsOf(events) :
                /\ Occurrences(events', id) = 1
                /\ FirstIndex(events', id) = FirstIndex(events, id)]_vars

\* C2 (as claimed): the cursor changes only in a fetch that brings in at least
\* one id not held before.
C2_CursorOnlyOnNewId ==
    [][cursorRef' # cursorRef =>
          (step'.op = "QuerySucceeds" /\ IdsOf(events') # IdsOf(events))]_vars

\* C3 (as claimed): a cycle whose three attempts all fail has slept exactly
\* 1000 ms, 3000 ms and 9000 ms when error and isRecovering are set.
C3_BackoffThreeSleeps ==
    step.outcome = "exhausted" => step.slept = <<1000, 3000, 9000>>

\* C4: once the component is unmounted no remote query is issued and events,
\* cursor, error, isRecovering and loading are never written again, whatever
\* settles or fires afterwards.
C4_DisposalTerminal ==
    [][lifecycle = "unmounted" =>
          UNCHANGED <<fetchCalls, events, cursorRef, error, isRecovering,
                      loading>>]_vars

\* C4 witness: a query that was in flight at the unmount has settled since.
C4_Witness ==
    /\ lifecycle = "unmounted"
    /\ step.op \in {"QuerySucceeds", "QueryFails"}
    /\ step.outcome = "aborted"

\* C5: at most one cycle is in flight, and a refresh() call or a poll tick
\* that finds a cycle in flight issues no query, queues nothing and writes
\* no state.
C5_SingleInFlight ==
    [][/\ Len(inflight') <= 1
       /\ (isFetchingRef /\ step'.op \in {"Refresh", "PollTick"}) =>
             /\ timers' \subseteq timers
             /\ UNCHANGED <<events, loading, error, isRecovering, cursorRef,
                            fetchCalls, inflight, isFetchingRef>>]_vars

\* C5 witness: refresh() was called while a cycle was in flight.
C5_Witness ==
    /\ step.op = "Refresh"
    /\ step.outcome = "ignored"
    /\ Len(inflight) = 1

\* C6: a cycle that succeeds on a degraded poller clears error and
\* isRecovering in the same task, keeps every held event in place and appends
\* the new events of the page after them.
C6_Recovery ==
    [][(Degraded /\ step'.op = "QuerySucceeds" /\ step'.outcome = "success") =>
          /\ error' = NoError
          /\ ~isRecovering'
          /\ IsPrefix(events, events')
          /\ IdsOf(events') = IdsOf(events) \cup IdsOf(step'.page)
          /\ \A k \in (Len(events) + 1)..Len(events') :
                /\ events'[k] \in Range(step'.page)
                /\ events'[k].id \notin IdsOf(events)
      ]_vars

\* C6 witness: a degraded poller that held events has recovered and holds
\* more events than before.
C6_Witness ==
    /\ step.op = "QuerySucceeds"
    /\ step.outcome = "success"
    /\ step.degraded
    /\ step.held > 0
    /\ Len(events) > step.held
    /\ ~Degraded

\* C7: with polling enabled, right after a cycle of a mounted poller ends
\* exactly one poll timer is pending: after the base interval when the cycle
\* succeeded, after twice the base interval when it exhausted its retries.
C7_Scheduling ==
    (pollIntervalMs # Disabled /\ step.outcome \in {"success", "exhausted"}) =>
       \E sub \in 0..restarts :
          PollTimers =
             {[id |-> pollTimerRef, kind |-> "poll",
               delay |-> IF step.outcome = "success" THEN pollIntervalMs
                         ELSE 2 * pollIntervalMs,
               sub |-> sub]}

\* C7 witness: a cycle exhausted its retries and the next poll is scheduled.
C7_Witness ==
    /\ step.outcome = "exhausted"
    /\ \E t \in PollTimers : t.delay = 2 * DEFAULT_POLL_INTERVAL_MS

\* C8 (as claimed): a refresh() whose cycle exhausts its retries rejects, and
\* error and isRecovering are set.
C8_RefreshPropagates ==
    (step.origin \in RefreshOrigins /\ step.outcome = "exhausted") =>
       (step.promise = "rejected" /\ error # NoError /\ isRecovering)

\* C8 (amended): a refresh() whose cycle exhausts its retries resolves
\* normally; the failure shows only in error and isRecovering.
C8_RefreshResolves ==
    (step.origin \in RefreshOrigins /\ step.outcome = "exhausted") =>
       (step.promise = "resolved" /\ error # NoError /\ isRecovering)

\* C8 witness: a refresh() of the caller exhausted its retries.
C8_Witness ==
    /\ step.origin = "refresh"
    /\ step.outcome = "exhausted"
    /\ step.op = "QueryFails"

\* C9: a failed attempt, retried or final, rejected or malformed, leaves
\* events and the cursor as they were, throws nothing out of its callback,
\* and a final failure is recorded in error and isRecovering.
C9_FailuresPreserveData ==
    [][step'.op = "QueryFails" =>
          /\ events' = events
          /\ cursorRef' = cursorRef
          /\ step'.promise # "rejected"
          /\ step'.outcome = "retry" => UNCHANGED <<error, isRecovering>>
          /\ step'.outcome = "exhausted" => (error' # NoError /\ isRecovering')
      ]_vars

\* C9 witness: a scheduled poll exhausted its retries on a malformed response
\* while events were held.
C9_Witness ==
    /\ step.op = "QueryFails"
    /\ step.origin = "poll"
    /\ step.outcome = "exhausted"
    /\ error = "malformed"
    /\ Len(events) > 0

\* C10: with pollIntervalMs null no poll timer is ever pending, after the
\* initial fetch or later; a refresh() of the caller still starts a cycle
\* with one query, and the end of that cycle writes the state: a success
\* keeps the held events, clears error and isRecovering and ends loading, an
\* exhausted cycle sets error and isRecovering and ends loading.
C10_DisabledPolling ==
    [][pollIntervalMs = Disabled =>
          /\ PollTimers' = {}
          /\ pollTimerRef' = NoTimer
          /\ (step'.op = "Refresh" /\ ~isFetchingRef) =>
                (fetchCalls' = fetchCalls + 1 /\ Len(inflight') = 1 /\ loading')
          /\ (step'.origin = "refresh" /\ step'.outcome = "success") =>
                /\ IsPrefix(events, events')
                /\ error' = NoError /\ ~isRecovering' /\ ~loading'
          /\ (step'.origin = "refresh" /\ step'.outcome = "exhausted") =>
                /\ events' = events /\ cursorRef' = cursorRef
                /\ error' # NoError /\ isRecovering' /\ ~loading'
      ]_vars

\* C10 witness: with polling disabled, a refresh() of the caller has brought
\* in new events and moved the cursor after the initial fetch, and no poll
\* timer is pending.
C10_Witness ==
    /\ pollIntervalMs = Disabled
    /\ step.origin = "refresh"
    /\ step.outcome = "success"
    /\ Len(events) > step.held
    /\ step.held > 0
    /\ cursorRef = Last(events).pagingToken
    /\ PollTimers = {}

\* C11: a cycle issues at most MAX_RETRIES = 3 remote queries; error is set
\* only by the task in which the third query of a cycle fails, never by the
\* first or second failure; a success of the first, second or third query
\* ends the cycle and leaves error null.
C11_RetryBudget ==
    [][/\ \A i \in 1..Len(inflight') :
             /\ QueriesIssued(inflight'[i].slept) <= MAX_RETRIES
             /\ inflight'[i].attempt < MAX_RETRIES
       /\ (error' # NoError /\ error' # error) =>
             /\ step'.op = "QueryFails"
             /\ step'.outcome = "exhausted"
             /\ QueriesIssued(step'.slept) = MAX_RETRIES
       /\ step'.outcome = "exhausted" =>
             (QueriesIssued(step'.slept) = MAX_RETRIES /\ error' # NoError)
       /\ (step'.op = "QueryFails" /\ step'.outcome = "retry") =>
             (QueriesIssued(step'.slept) < MAX_RETRIES /\ error' = error)
       /\ step'.outcome = "success" =>
             /\ QueriesIssued(step'.slept) \in 1..MAX_RETRIES
             /\ error' = NoError
             /\ Len(inflight') = Len(inflight) - 1
             /\ ~isFetchingRef'
      ]_vars

\* C11 witness: the initial cycle has failed three times; exactly three
\* queries were issued and error is set.
C11_Witness ==
    /\ step.op = "QueryFails"
    /\ step.origin = "effect"
    /\ step.outcome = "exhausted"
    /\ fetchCalls = MAX_RETRIES
    /\ error # NoError
    /\ inflight = <<>>

\* C17 (as claimed): in every reachable state no two held events share an
\* id, whatever pages the remote returns, a page that lists one id more than
\* once included.
C17_HeldDeduplicated ==
    \A id \in IdsOf(events) : Occurrences(events, id) = 1

\* C18 (as claimed): after every fetch that appended something the cursor
\* equals the pagingToken of the last held event, the last new record that
\* fetch appended.
C18_CursorOfLastAppended ==
    [][(step'.op = "QuerySucceeds" /\ Len(events') > Len(events)) =>
          cursorRef' = Last(events').pagingToken]_vars

\* The records of a page whose id is not among the held ones, in the order
\* the page lists them.
ArrivedNew(held, page) ==
    SelectSeq(page, LAMBDA e : e.id \notin IdsOf(held))

\* C20: the held sequence before a step is a prefix of the held sequence
\* after it; a fetch appends the records of its page that were not held, in
\* the order of the page, after the held ones; no other step changes the
\* held sequence.
C20_AppendOnly ==
    [][/\ IsPrefix(events, events')
       /\ (step'.op = "QuerySucceeds" /\ step'.outcome = "success") =>
             events' = events \o ArrivedNew(events, step'.page)
       /\ ~(step'.op = "QuerySucceeds" /\ step'.outcome = "success") =>
             events' = events
      ]_vars

\* C20 witness: a fetch whose page listed a held id and a new one has
\* appended the new record after the held ones.
C20_Witness ==
    /\ step.op = "QuerySucceeds"
    /\ step.outcome = "success"
    /\ step.held > 0
    /\ Len(events) > step.held
    /\ \E k \in 1..Len(step.page) :
          step.page[k].id \in IdsOf(SubSeq(events, 1, step.held))
    /\ SubSeq(events, step.held + 1, Len(events)) =
          ArrivedNew(SubSeq(events, 1, step.held), step.page)

\* The poll timers pending right after a cycle of a mounted poller ended with
\* outcome, as the poll callback leaves them (lines 919-926), given the ref
\* the new timer is kept in and the render whose closure set it.
AsPollTickWould(outcome, ref, sub) ==
    IF pollIntervalMs = Disabled THEN {}
    ELSE {[id |-> ref, kind |-> "poll",
           delay |-> IF outcome = "success" THEN pollIntervalMs
                     ELSE pollIntervalMs * ERROR_POLL_MULTIPLIER,
           sub |-> sub]}

\* C19: a refresh() called while no cycle is in flight removes the pending
\* poll timer and starts exactly one cycle with one query in the same task;
\* while a cycle is in flight no poll timer is pending, so the cancelled
\* timer cannot fire; when the cycle of a refresh() ends the poll timers are
\* those a poll tick's cycle would leave; at most one poll timer is pending
\* in every state.
C19_RefreshReschedules ==
    [][/\ (step'.op = "Refresh" /\ ~isFetchingRef) =>
             /\ PollTimers' = {}
             /\ pollTimerRef' = NoTimer
             /\ step'.cancelled = Cardinality(PollTimers)
             /\ Len(inflight') = 1
             /\ inflight'[1].origin = "refresh"
             /\ fetchCalls' = fetchCalls + 1
             /\ isFetchingRef'
       /\ Len(inflight') > 0 => PollTimers' = {}
       /\ (step'.origin = "refresh" /\
           step'.outcome \in {"success", "exhausted"}) =>
             /\ \E sub \in 0..restarts :
                   PollTimers' =
                      AsPollTickWould(step'.outcome, pollTimerRef', sub)
             /\ inflight' = <<>>
       /\ Cardinality(PollTimers') <= 1
      ]_vars

\* C19 witness: a refresh() has cancelled a pending poll timer and its cycle
\* is in flight.
C19_Witness ==
    /\ step.op = "Refresh"
    /\ step.outcome = "started"
    /\ step.cancelled = 1
    /\ PollTimers = {}
    /\ Len(inflight) = 1

\* ---- claims about the codec ----------------------------------------------
HasHint(h) == arg.t = "typed" /\ arg.type = h

\* C12: for every n of the signed double word, the i128 hint splits n into
\* hi = n >> SHIFT64 (rounding down) and lo = n & MASK64, and decoding the
\* result gives n back; the corner values 0, -1, 2^(w-1), -2^(w-1),
\* 2^(2w-1)-1 and -2^(2w-1) are among them.
C12_I128Symmetry ==
    (HasHint("i128") /\ arg.value.t = "bigint" /\ arg.value.v \in Int128s) =>
       LET n == arg.value.v
       IN  /\ Encoded =>
                wire = [k |-> "scvI128", hi |-> n \div Pow(2, SHIFT64),
                        lo |-> n % Pow(2, SHIFT64)]
           /\ Decoded => decoded = Big(n)

\* C12 witness: the least value of the signed double word went through
\* encode and decode.
C12_Witness ==
    /\ HasHint("i128")
    /\ arg.value = Big(-Pow(2, 2 * SHIFT64 - 1))
    /\ wire.k = "scvI128"
    /\ wire.hi < 0
    /\ decoded = arg.value

\* The integer a number, a BigInt or a decimal text stands for.
IntegerOf(x) ==
    CASE x.t = "number" -> x.halves \div 2
      [] x.t = "bigint" -> x.v
      [] x.t = "string" -> StringToBigInt(x.s).v

IsIntegral(x) ==
    \/ IsInteger(x)
    \/ x.t = "bigint"
    \/ x.t = "string" /\ x.s # <<>> /\ StringToBigInt(x.s).ok

NumericHints == {"u32", "i32", "u64", "i64", "u128", "i128", "timepoint",
                 "duration"}

\* Hex text: an even number of hex digits, after an optional 0x.
HexBody(s) == IF StartsWith(s, <<"0", "x">>) THEN SubSeq(s, 3, Len(s)) ELSE s

IsHexText(s) ==
    /\ Len(HexBody(s)) % 2 = 0
    /\ \A i \in 1..Len(HexBody(s)) : IsHexDigit(HexBody(s)[i])

\* The values of an enum object, none when the property is absent.
ValuesOf(object) ==
    IF Field(object, ValuesKey).t = "undefined" THEN <<>>
    ELSE Field(object, ValuesKey).items

\* Whether the decoded value d is the value the argument a stands for: the
\* same integer for the numeric hints, the bytes a hex text spells, the same
\* elements in the same order for a vec, the same pairs in the same order
\* for a map, the same tag and values for an enum, the same value otherwise.
RECURSIVE Equivalent(_, _)
Equivalent(a, d) ==
    LET v == IF a.t = "typed" THEN a.value ELSE a
        hint == IF a.t = "typed" THEN a.type ELSE "none"
    IN  CASE hint \in NumericHints ->
                /\ IsIntegral(v)
                /\ d.t \in {"number", "bigint"}
                /\ IsIntegral(d)
                /\ IntegerOf(d) = IntegerOf(v)
          [] hint = "bytes" /\ v.t = "string" ->
                d.t = "Uint8Array" /\ d.bytes = HexDecode(HexBody(v.s))
          [] hint = "vec" \/ (hint = "none" /\ v.t = "Array") ->
                /\ d.t = "Array"
                /\ Len(d.items) = Len(v.items)
                /\ \A i \in 1..Len(v.items) :
                      Equivalent(v.items[i], d.items[i])
          [] hint = "map" ->
                /\ d.t = "Map"
                /\ Len(d.entries) = Len(v.items)
                /\ \A i \in 1..Len(v.items) :
                      /\ Equivalent(v.items[i].items[1], d.entries[i].key)
                      /\ Equivalent(v.items[i].items[2], d.entries[i].val)
          [] hint = "enum" ->
                /\ d.t = "object"
                /\ Len(d.entries) = 2
                /\ Field(d, TagKey) = Field(v, TagKey)
                /\ Field(d, ValuesKey).t = "Array"
                /\ Len(Field(d, ValuesKey).items) = Len(ValuesOf(v))
                /\ \A i \in 1..Len(ValuesOf(v)) :
                      Equivalent(ValuesOf(v)[i], Field(d, ValuesKey).items[i])
          [] OTHER -> d.t = v.t /\ d = v

\* The values a hint is documented to take, containers included.
Accepted(a) ==
    /\ a.t = "typed"
    /\ \/ a.value \in DocumentedInputs(a.type)
       \/ a.type = "vec" /\ a.value.t = "Array"
       \/ a.type = "map" /\ a.value.t = "Array"
             /\ \A i \in 1..Len(a.value.items) : a.value.items[i].t = "Array"
       \/ a.type = "enum" /\ a.value.t = "object"

\* The hinted elements of a vec, map or enum argument.
ElementsOf(a) ==
    CASE a.type = "vec" -> Range(a.value.items)
      [] a.type = "map" ->
            UNION {Range(a.value.items[i].items) : i \in 1..Len(a.value.items)}
      [] a.type = "enum" -> Range(ValuesOf(a.value))
      [] OTHER -> {}

\* A vec, map or enum with numeric elements of different widths.
MixedPrecision(a) ==
    \E x, y \in ElementsOf(a) :
       /\ x.t = "typed" /\ y.t = "typed"
       /\ x.type \in NumericHints /\ y.type \in NumericHints
       /\ x.type # y.type

SymbolFirst(a) ==
    /\ a.type = "vec"
    /\ Len(a.value.items) >= 1
    /\ toXdrValue(a.value.items[1]).k = "scvSymbol"

\* Whether two tuples of a map argument have keys that decode to the same
\* key of a Map.
SameDecodedKey(t1, t2) ==
    SameKey(fromXdrValue(toXdrValue(t1.items[1]), "strkey"),
            fromXdrValue(toXdrValue(t2.items[1]), "strkey"))

\* The last tuple of a map argument with the key of tuple i.
LastWithKey(tuples, i) ==
    CHOOSE j \in i..Len(tuples) :
       /\ SameDecodedKey(tuples[j], tuples[i])
       /\ \A m \in (j + 1)..Len(tuples) :
             ~SameDecodedKey(tuples[m], tuples[i])

\* The tuples of a map argument whose key no earlier tuple has.
FirstOfKey(tuples) ==
    SelectSeq([i \in 1..Len(tuples) |-> i],
              LAMBDA i : \A j \in 1..(i - 1) :
                 ~SameDecodedKey(tuples[j], tuples[i]))

C14_EnumRoundTrip ==
    (HasHint("enum") /\ arg.value.t = "object") =>
       LET tag == Field(arg.value, TagKey).s
           values == ValuesOf(arg.value)
           encoded == [i \in 1..Len(values) |-> toXdrValue(values[i])]
       IN  /\ Encoded => wire = scvVec(<<scvSymbol(tag)>> \o encoded)
           /\ Decoded =>
                decoded =
                   Obj(<<Prop(TagKey, Str(tag)),
                         Prop(ValuesKey,
                              Arr([i \in 1..Len(values) |->
                                     fromXdrValue(encoded[i], "strkey")]))>>)

\* C14 witness: the enum Transfer with one u128 value went through encode
\* and decode.
C14_Witness ==
    /\ HasHint("enum")
    /\ arg.value = Obj(<<Prop(TagKey, Str(TextTransfer)),
                         Prop(ValuesKey, Arr(<<Typed(Big(5), "u128")>>))>>)
    /\ wire.k = "scvVec"
    /\ Len(wire.items) = 2
    /\ decoded = Obj(<<Prop(TagKey, Str(TextTransfer)),
                       Prop(ValuesKey, Arr(<<Big(5)>>))>>)

\* C15 (as claimed): the bytes hint fails on every value that is neither a
\* raw byte sequence nor valid hex text, a string that is not valid hex
\* included.
C15_BytesHintFails ==
    (Encoded /\ HasHint("bytes")
       /\ arg.value.t # "Uint8Array"
       /\ ~(arg.value.t = "string" /\ IsHexText(arg.value.s))) =>
       IsThrown(wire)

\* The ScVal the rules of the auto-detection give a value, in their order:
\* boolean, BigInt, integer-valued number, address-shaped string, other
\* string, bytes, address object, array, plain object, anything else as the
\* string of its text.  Elements, keys and values are encoded recursively.
ByRules(value) ==
    CASE value.t = "boolean" -> scvBool(value.v)
      [] value.t = "bigint" ->
            [k |-> "scvI128", hi |-> value.v \div Pow(2, SHIFT64),
             lo |-> value.v % Pow(2, SHIFT64)]
      [] IsInteger(value) -> scvI32(value)
      [] value.t = "string" /\ AddressShaped(value.s) ->
            AddressToScVal(value.s)
      [] value.t = "string" -> scvString(value.s)
      [] value.t = "Uint8Array" -> scvBytes(value.bytes)
      [] value.t = "Address" -> scvAddress(value.s)
      [] value.t = "Array" ->
            scvVec([i \in 1..Len(value.items) |-> toXdrValue(value.items[i])])
      [] value.t = "object" ->
            scvMap([i \in 1..Len(value.entries) |->
                      [key |-> toXdrValue(Str(value.entries[i].key)),
                       val |-> toXdrValue(value.entries[i].val)]])
      [] OTHER -> scvString(ToText(value))

\* C16 (as claimed): without a hint the input is encoded by the first rule
\* of the list that matches it.
C16_AutoDetection ==
    (Encoded /\ arg.t \notin {"typed", "nothing"}) => wire = ByRules(arg)

\* ---- claims about the cursor, loading and the subscription ----------------
\* Whether the step has issued the query that cycle i of the next state
\* awaits: the cycle is new, or it has woken from a backoff sleep.
IssuedBy(i) ==
    /\ fetchCalls' = fetchCalls + 1
    /\ inflight'[i].pc = "query"
    /\ (i > Len(inflight) \/ inflight[i].pc = "sleep")

\* Whether a query issued in the step by the cycle q is the first one of
\* the subscription the last effect run began: it goes out through that
\* run's closures, and none went out through them before.
FirstOfSubscription(q) ==
    q.sub = restarts' /\ (restarts' # restarts \/ ~queried)

\* A fetch that moves the cursor: a response with events in it, mapped by a
\* mounted poller.
CursorAdvancing(s) ==
    s.op = "QuerySucceeds" /\ s.outcome = "success" /\ Len(s.page) > 0

\* C21 (as claimed): the first query of a subscription carries fromCursor,
\* no cursor when none was configured; every later query carries cursorRef,
\* which changes only when the effect starts a subscription and when a fetch
\* brings in events, to the pagingToken of the last event of the response.
C21_QueryCursor ==
    [][/\ \A i \in 1..Len(inflight') :
             IssuedBy(i) =>
                inflight'[i].cursor =
                   IF FirstOfSubscription(inflight'[i]) THEN fromCursor
                   ELSE cursorRef
       /\ CursorAdvancing(step') =>
             cursorRef' = Last(step'.page).pagingToken
       /\ cursorRef' # cursorRef =>
             (CursorAdvancing(step') \/ step'.op \in {"Mount", "Restart"})
      ]_vars

\* C26: while the poller is not unmounted, loading is true exactly in the
\* states with a cycle in flight; the task that starts a cycle, the effect's
\* initial load, a poll tick or a refresh(), sets it, the task in which the
\* cycle ends, by a success or with its retries exhausted, resets it, and
\* no other task changes it.
C26_LoadingWhileInFlight ==
    [][/\ lifecycle # "unmounted" => (loading <=> Len(inflight) > 0)
       /\ lifecycle' # "unmounted" =>
             /\ loading' <=> Len(inflight') > 0
             /\ loading' <=> isFetchingRef'
       /\ step'.outcome = "started" =>
             (step'.op \in {"Mount", "PollTick", "Refresh", "Restart"}
                /\ ~loading /\ loading')
       /\ step'.outcome \in {"success", "exhausted"} =>
             (loading /\ ~loading' /\ inflight' = <<>>)
       /\ loading' # loading =>
             step'.outcome \in {"started", "success", "exhausted"}
      ]_vars

\* C26 witness: a scheduled poll's cycle has exhausted its retries and
\* loading is false again.
C26_Witness ==
    /\ step.origin = "poll"
    /\ step.outcome = "exhausted"
    /\ lifecycle = "mounted"
    /\ ~loading
    /\ inflight = <<>>

\* The model issues no more queries: a cycle that waits to issue one is
\* held up by the bound, not by the program.
BudgetSpent == fetchCalls = MaxFetchCalls

\* C27 (as claimed): on a poller that is not unmounted, a cycle in flight
\* eventually ends and releases the in-flight guard, whatever calls of
\* stopPolling() come in between.
C27_CycleCompletes ==
    (isFetchingRef /\ lifecycle = "mounted") ~>
       (~isFetchingRef \/ lifecycle = "unmounted" \/ BudgetSpent)

\* C28 (as claimed): once stopPolling() has returned, and until refresh()
\* is called, no poll timer's callback issues a remote query, whether or
\* not a cycle was in flight when stopPolling() was called.
C28_NoPollAfterStop ==
    [][(stopLog = Stopped /\ step'.op = "PollTick") =>
          fetchCalls' = fetchCalls]_vars

\* C29 (as claimed): the response to a query that went out before the
\* last re-run of the subscription effect is neither appended to the held
\* events nor does it move the cursor.
C29_StaleResponseDropped ==
    [][\A i \in 1..Len(inflight) :
          (/\ step'.op = "QuerySucceeds"
           /\ inflight' = RemoveAt(inflight, i)
           /\ inflight[i].issued < restarts) =>
             UNCHANGED <<events, cursorRef>>]_vars

\* The state right after the subscription effect has run for the n-th time.
Started(n) == step.op \in {"Mount", "Restart"} /\ restarts = n

\* A query of the n-th run of the effect is in flight, from fromCursor.
InitialQueryOut(n) ==
    \E i \in 1..Len(inflight) :
        /\ inflight[i].pc = "query"
        /\ inflight[i].sub = n
        /\ inflight[i].cursor = fromCursor

\* C30 (as claimed): every run of the subscription effect is followed by a
\* query for the new contractId that starts from fromCursor, unless the hook
\* is unmounted, the effect runs again or the query budget is spent first.
C30_RestartQueries ==
    \A n \in 0..MaxRestarts :
        Started(n) ~> (\/ InitialQueryOut(n)
                       \/ lifecycle = "unmounted"
                       \/ restarts # n
                       \/ BudgetSpent)

\* ---- more claims about the codec -----------------------------------------
\* The number of values of a word, and of a double word.
WordValues == Pow(2, SHIFT64)
DoubleWordValues == WordValues * WordValues

\* C22: for every n from -2^(2w) to 2^(2w) - 1, given as a BigInt or as
\* decimal text, the u128 hint gives two halves that both lie in 0..2^w - 1;
\* for n >= 0 they are n >> w and n & (2^w - 1) and decoding gives n; for
\* n < 0 hi is (n >> w) + 2^w and decoding gives n + 2^(2w).
C22_U128Split ==
    (HasHint("u128") /\ arg.value.t \in {"bigint", "string"}
       /\ IsIntegral(arg.value)
       /\ IntegerOf(arg.value) \in (-DoubleWordValues)..(DoubleWordValues - 1))
    => LET n == IntegerOf(arg.value)
       IN  /\ Encoded =>
                /\ wire.k = "scvU128"
                /\ wire.hi \in 0..(WordValues - 1)
                /\ wire.lo \in 0..(WordValues - 1)
                /\ wire.lo = n % WordValues
                /\ wire.hi = IF n >= 0 THEN n \div WordValues
                             ELSE (n \div WordValues) + WordValues
           /\ Decoded =>
                decoded = Big(IF n >= 0 THEN n ELSE n + DoubleWordValues)

\* C22 witness: -1 went through encode and decode with the u128 hint and
\* came back as the greatest value of the unsigned double word.
C22_Witness ==
    /\ HasHint("u128")
    /\ arg.value = Big(-1)
    /\ wire = [k |-> "scvU128", hi |-> MASK64, lo |-> MASK64]
    /\ decoded = Big(DoubleWordValues - 1)

\* The pairs of a wire map, each decoded by itself, in wire order.
DecodedPairs(entries, sdk) ==
    [i \in 1..Len(entries) |->
       Prop(fromXdrValue(entries[i].key, sdk),
            fromXdrValue(entries[i].val, sdk))]

\* C23 (as claimed): a wire map of k entries decodes to a collection of
\* exactly k pairs, the decoded key and the decoded value of every entry in
\* wire order, also when two entries decode to the same key.
C23_MapDecodesAllPairs ==
    (Decoded /\ wire.k = "scvMap") =>
       /\ decoded.t = "Map"
       /\ Len(decoded.entries) = Len(wire.entries)
       /\ \E sdk \in AddressToString :
             decoded.entries = DecodedPairs(wire.entries, sdk)

\* The elements of a wire sequence from the one at position from on, each
\* decoded by itself, in wire order.
DecodedFrom(items, from, sdk) ==
    [i \in 1..(Len(items) - from + 1) |->
       fromXdrValue(items[i + from - 1], sdk)]

\* C24: a wire sequence decodes to the list of its decoded elements in
\* order, the empty sequence to the empty list, unless its first element is
\* a symbol: then it decodes to the object of tag, that symbol's text, and
\* values, the decoded elements after the first in order.  So an argument
\* with the vec hint whose first element is encoded as a symbol comes back
\* as such an object and not as a list.
C24_VecOrEnum ==
    /\ (Decoded /\ wire.k = "scvVec") =>
          \E sdk \in AddressToString :
             decoded =
                IF wire.items # <<>> /\ wire.items[1].k = "scvSymbol"
                THEN Obj(<<Prop(TagKey, Str(wire.items[1].s)),
                           Prop(ValuesKey,
                                Arr(DecodedFrom(wire.items, 2, sdk)))>>)
                ELSE Arr(DecodedFrom(wire.items, 1, sdk))
    /\ (Decoded /\ HasHint("vec") /\ arg.value.t = "Array"
           /\ arg.value.items # <<>>
           /\ arg.value.items[1].t = "typed"
           /\ arg.value.items[1].type = "symbol") =>
          /\ decoded.t = "object"
          /\ Field(decoded, TagKey) = Str(ToText(arg.value.items[1].value))
          /\ Len(Field(decoded, ValuesKey).items) = Len(arg.value.items) - 1

\* C24 witness: the vec of the symbol hi and the u32 1 came back as the
\* object of tag hi with the one value 1.
C24_Witness ==
    /\ arg = Typed(Arr(<<Typed(Str(TextHi), "symbol"), Typed(Num(2), "u32")>>),
                   "vec")
    /\ wire = scvVec(<<scvSymbol(TextHi), scvU32(Num(2))>>)
    /\ decoded = Obj(<<Prop(TagKey, Str(TextHi)),
                       Prop(ValuesKey, Arr(<<Num(2)>>))>>)

\* C25 (as claimed): without a hint a number is encoded as I32 only when it
\* is integer-valued; a number that is not is encoded as the String of its
\* text.
C25_NumberWithoutHint ==
    (Encoded /\ arg.t = "number") =>
       wire = IF IsInteger(arg) THEN scvI32(arg) ELSE scvString(ToText(arg))
====
